---- MODULE Spec2Model ----
(***************************************************************************)
(* Model of raydium-pool-trim (src/main.go): the two streaming JSON walks  *)
(* getTokenAddress and processPoolsFile over encoding/json's Decoder, and  *)
(* the read-merge-rewrite of the output file in writeFilteredPools.        *)
(*                                                                         *)
(* A document is the sequence of lexical tokens of a well-formed JSON      *)
(* text (commas and colons are consumed by Decoder.Token itself and are    *)
(* left out).  A string is a sequence of one-character strings, so that    *)
(* strings.ToUpper, strings.TrimPrefix and the encoder's UTF-8 coercion    *)
(* are computed character by character.  validateJSON, the download and    *)
(* the flag handling of main are not modelled: each function is run on     *)
(* every generated input.                                                  *)
(***************************************************************************)
EXTENDS Naturals, Sequences, FiniteSets

VARIABLES
    \* getTokenAddress
    tdoc,        \* the token document (token sequence)
    tquery,      \* the symbol argument as passed by the caller
    tsym,        \* the local `symbol` after normalisation (line 334)
    tpos,        \* the decoder's cursor: index of the next token of tdoc
    tpc,         \* "open" | "loop" | "done"
    terr,        \* "none" | "Malformed" | "NotFound"
    matchingTokens,  \* the matches collected so far
    tokenCount,  \* elements met so far
    \* processPoolsFile
    pdoc,        \* the pool document (token sequence)
    pmint,       \* the baseMint argument
    ppos,        \* the decoder's cursor
    ppc,         \* "open" | "loop" | "done"
    perr,        \* "none" | "Malformed"
    matchingPools,   \* the matches collected so far
    psrc,        \* history: for each element of matchingPools, where it was decoded
    pseen,       \* history: every record handed to processPool, in order
    \* writeFilteredPools
    disk,        \* content of the output file, or Absent
    wres,        \* outcome of the last call: "none" | "ok" | "Malformed" | "IOError"
    wtoken,      \* the tokenInfo argument
    wpools,      \* the pools argument
    tokenList,   \* tokenList.Tokens
    wloaded,     \* history: tokenList.Tokens after loading, before the upsert
    wprior,      \* history: disk when the current call started
    wruns,       \* number of calls started
    wclean,      \* history: the file was absent at first and no call failed
    wlast        \* history: the arguments of the call before the current one

tvars == <<tdoc, tquery, tsym, tpos, tpc, terr, matchingTokens, tokenCount>>
pvars == <<pdoc, pmint, ppos, ppc, perr, matchingPools, psrc, pseen>>
wvars == <<disk, wres, wtoken, wpools, tokenList, wloaded, wprior, wruns, wclean, wlast>>
vars == <<tvars, pvars, wvars>>

\* ---------------------------------------------------------------- bounds

MaxFields == 2     \* top-level fields of a generated document
MaxRuns == 3       \* calls of writeFilteredPools in one behaviour

\* ------------------------------------------------- JSON tokens and decoder

Tok(t, v) == [t |-> t, v |-> v]
LBrace == Tok("{", <<>>)
RBrace == Tok("}", <<>>)
LBrack == Tok("[", <<>>)
RBrack == Tok("]", <<>>)
Num == Tok("num", <<>>)
Str(s) == Tok("str", s)

K_official == <<"o","f","f","i","c","i","a","l">>
K_unOfficial == <<"u","n","O","f","f","i","c","i","a","l">>
K_name == <<"n","a","m","e">>
K_symbol == <<"s","y","m","b","o","l">>
K_baseMint == <<"b","a","s","e","M","i","n","t">>
K_quoteMint == <<"q","u","o","t","e","M","i","n","t">>
K_other == <<"t","i","m","e">>
K_inner == <<"x">>

\* Decoder.More: the next token exists and closes neither an array nor an object.
More(doc, pos) == pos <= Len(doc) /\ doc[pos].t \notin {"]", "}"}

\* Decoder.Token at end of input returns io.EOF.
AtEOF(doc, pos) == pos > Len(doc)

RECURSIVE MatchClose(_, _, _)
\* Index of the delimiter that closes the value opened before `pos`, `depth`
\* levels still being open.
MatchClose(doc, pos, depth) ==
    IF pos > Len(doc) THEN Len(doc)
    ELSE IF doc[pos].t \in {"{", "["} THEN MatchClose(doc, pos + 1, depth + 1)
    ELSE IF doc[pos].t \in {"}", "]"}
         THEN IF depth = 1 THEN pos ELSE MatchClose(doc, pos + 1, depth - 1)
    ELSE MatchClose(doc, pos + 1, depth)

\* Index of the last token of the whole JSON value that starts at `pos`
\* (what Decoder.Decode consumes).
ValueEnd(doc, pos) ==
    IF doc[pos].t \in {"{", "["} THEN MatchClose(doc, pos + 1, 1) ELSE pos

RECURSIVE ObjectField(_, _, _, _)
\* The string value of field `key` of the object whose first key is at `pos`
\* (the last occurrence wins, as in encoding/json), `acc` when it has none.
\* [ok |-> FALSE] when the field is present with a non-string value
\* (UnmarshalTypeError).
ObjectField(doc, pos, key, acc) ==
    IF doc[pos].t = "}" THEN acc
    ELSE LET v == pos + 1
             next == ValueEnd(doc, v) + 1
         IN  IF doc[pos].v = key
             THEN IF doc[v].t = "str"
                  THEN ObjectField(doc, next, key, [ok |-> acc.ok, v |-> doc[v].v])
                  ELSE ObjectField(doc, next, key, [ok |-> FALSE, v |-> acc.v])
             ELSE ObjectField(doc, next, key, acc)


\* ------------------------------------------------------ generated documents

RECURSIVE Flatten(_)
\* The concatenation of a sequence of token sequences.
Flatten(ss) == IF ss = <<>> THEN <<>> ELSE Head(ss) \o Flatten(Tail(ss))

\* The lengths of the generated arrays of records.
ArrayLengths == {0, 1, 2}

\* The arrays of records, each record given by its token sequence.
ArraysOf(recs) == UNION { { Flatten(f) : f \in [1..n -> recs] } : n \in ArrayLengths }

\* The shapes of one top-level field: an `official` or `unOfficial` array of
\* records, a `name`, a field of another name whose value is a scalar, an
\* object or an array (two of them holding an `official` array of their own),
\* and an `official` whose value is not an array of objects.
FieldShapes(recs) ==
    { <<Str(k), LBrack>> \o a \o <<RBrack>> :
        k \in {K_official, K_unOfficial}, a \in ArraysOf(recs) }
    \cup { <<Str(K_name), Str(<<"r">>)>>,
           <<Str(K_other), Num>>,
           <<Str(K_other), Str(K_official)>>,
           <<Str(K_other), Str(K_name)>>,
           <<Str(K_other), LBrace, Str(K_inner), Num, RBrace>>,
           <<Str(K_other), LBrack, Num, RBrack>>,
           <<Str(K_official), Num>>,
           <<Str(K_official), LBrack, Num, RBrack>> }
    \cup { <<Str(K_other), LBrace, Str(K_official), LBrack>> \o r \o <<RBrack, RBrace>>
           : r \in recs }
    \cup { <<Str(K_other), LBrack, Str(K_official), LBrack>> \o r \o <<RBrack, RBrack>>
           : r \in recs }

RECURSIVE Bodies(_, _)
\* The field lists of at most f fields.
Bodies(shapes, f) ==
    IF f = 0 THEN {<<>>}
    ELSE LET shorter == Bodies(shapes, f - 1)
         IN  {<<>>} \cup { s \o b : s \in shapes, b \in shorter }

\* The documents: an object of generated fields.
Documents(recs) ==
    { <<LBrace>> \o b \o <<RBrace>> : b \in Bodies(FieldShapes(recs), MaxFields) }

\* ---------------------------------------------------------- getTokenAddress

RecordSymbols == { <<"A","B">>, <<"a","b">>, <<"$","A","B">>, <<"C">> }
QuerySymbols == { <<"A","B">>, <<"a","b">>, <<"$","a","B">>, <<"C">> }

TokenRecordToks == { <<LBrace, Str(K_symbol), Str(s), RBrace>> : s \in RecordSymbols }

\* A top-level value that is not an object is a document too (line 330).
TokenDocuments == Documents(TokenRecordToks) \cup { <<LBrack, RBrack>> }

\* unicode.ToUpper on the characters used.
UpperOf(c) ==
    CASE c = "a" -> "A"
      [] c = "b" -> "B"
      [] c = "c" -> "C"
      [] OTHER -> c

\* strings.ToUpper
ToUpper(s) == [i \in 1..Len(s) |-> UpperOf(s[i])]

\* strings.TrimPrefix(s, "$")
TrimPrefixDollar(s) == IF Len(s) >= 1 /\ s[1] = "$" THEN Tail(s) ELSE s

\* line 334: symbol = strings.ToUpper(strings.TrimPrefix(symbol, "$"))
NormalizeSymbol(s) == ToUpper(TrimPrefixDollar(s))

\* decoder.Decode(&token) with token a TokenInfo: the whole value at `pos`
\* is consumed; a value that is not an object, or a symbol that is not a
\* string, is an UnmarshalTypeError.
DecodeTokenInfo(doc, pos) ==
    IF doc[pos].t = "{"
    THEN LET f == ObjectField(doc, pos + 1, K_symbol, [ok |-> TRUE, v |-> <<>>])
         IN  [ok |-> f.ok, rec |-> [symbol |-> f.v], next |-> ValueEnd(doc, pos) + 1]
    ELSE [ok |-> FALSE, rec |-> [symbol |-> <<>>], next |-> ValueEnd(doc, pos) + 1]

\* line 365: token.Symbol == symbol
SymbolMatches(rec, sym) == rec.symbol = sym

RECURSIVE TokenArray(_, _, _, _, _)
\* lines 354-380: the element loop of one array and the read of its end.
TokenArray(doc, pos, sym, match, count) ==
    IF More(doc, pos)
    THEN LET d == DecodeTokenInfo(doc, pos)
         IN  IF ~d.ok
             THEN [err |-> "Malformed", pos |-> d.next, match |-> match, count |-> count + 1]
             ELSE TokenArray(doc, d.next, sym,
                             IF SymbolMatches(d.rec, sym) THEN Append(match, d.rec) ELSE match,
                             count + 1)
    ELSE IF AtEOF(doc, pos) \/ doc[pos].t # "]"
         THEN [err |-> "Malformed", pos |-> pos + 1, match |-> match, count |-> count]
         ELSE [err |-> "none", pos |-> pos + 1, match |-> match, count |-> count]

\* lines 326-335: the opening token must be the object delimiter.
TokOpen ==
    /\ tpc = "open"
    /\ IF AtEOF(tdoc, tpos) \/ tdoc[tpos].t # "{"
       THEN /\ tpc' = "done"
            /\ terr' = "Malformed"
            /\ UNCHANGED tsym
       ELSE /\ tpc' = "loop"
            /\ tsym' = NormalizeSymbol(tquery)
            /\ UNCHANGED terr
    /\ tpos' = tpos + 1
    /\ UNCHANGED <<tdoc, tquery, matchingTokens, tokenCount>>
    /\ UNCHANGED <<pvars, wvars>>

\* lines 337-388: one iteration of the field loop.
TokField ==
    /\ tpc = "loop"
    /\ More(tdoc, tpos)
    /\ LET key == tdoc[tpos]
           p == tpos + 1
       IN  IF key.t = "str" /\ key.v \in {K_official, K_unOfficial}
           THEN IF AtEOF(tdoc, p) \/ tdoc[p].t # "["
                THEN /\ tpos' = p + 1
                     /\ tpc' = "done"
                     /\ terr' = "Malformed"
                     /\ UNCHANGED <<matchingTokens, tokenCount>>
                ELSE LET r == TokenArray(tdoc, p + 1, tsym, matchingTokens, tokenCount)
                     IN  /\ tpos' = r.pos
                         /\ matchingTokens' = r.match
                         /\ tokenCount' = r.count
                         /\ terr' = r.err
                         /\ tpc' = IF r.err = "none" THEN "loop" ELSE "done"
           ELSE IF key.t = "str"
           THEN \* default: one token is read as the value
                IF AtEOF(tdoc, p)
                THEN /\ tpos' = p
                     /\ tpc' = "done"
                     /\ terr' = "Malformed"
                     /\ UNCHANGED <<matchingTokens, tokenCount>>
                ELSE /\ tpos' = p + 1
                     /\ UNCHANGED <<tpc, terr, matchingTokens, tokenCount>>
           ELSE \* the token read as a field name is no string: nothing more is read
                /\ tpos' = p
                /\ UNCHANGED <<tpc, terr, matchingTokens, tokenCount>>
    /\ UNCHANGED <<tdoc, tquery, tsym>>
    /\ UNCHANGED <<pvars, wvars>>

\* lines 390-402: the closing token, then the not-found test.
TokClose ==
    /\ tpc = "loop"
    /\ ~More(tdoc, tpos)
    /\ tpc' = "done"
    /\ tpos' = tpos + 1
    /\ terr' = IF AtEOF(tdoc, tpos) \/ tdoc[tpos].t # "}" THEN "Malformed"
               ELSE IF Len(matchingTokens) = 0 THEN "NotFound"
               ELSE "none"
    /\ UNCHANGED <<tdoc, tquery, tsym, matchingTokens, tokenCount>>
    /\ UNCHANGED <<pvars, wvars>>

TInit ==
    /\ tdoc \in TokenDocuments
    /\ tquery \in QuerySymbols
    /\ tsym = tquery
    /\ tpos = 1
    /\ tpc = "open"
    /\ terr = "none"
    /\ matchingTokens = <<>>
    /\ tokenCount = 0

\* getTokenAddress is not running.
TOff ==
    /\ tdoc = <<>>
    /\ tquery = <<>>
    /\ tsym = <<>>
    /\ tpos = 1
    /\ tpc = "off"
    /\ terr = "none"
    /\ matchingTokens = <<>>
    /\ tokenCount = 0


\* ---------------------------------------------------------- processPoolsFile

\* line 18 (the address is abbreviated)
defaultQuoteMint == <<"S","O","L">>

MintX == <<"X">>
MintY == <<"Y">>
QueryMints == { MintX, MintY }

\* A pool on the queried mint's base side, one on its quote side, one that
\* holds the queried mint with another mint on the other side.
PoolRecords ==
    { [baseMint |-> MintX, quoteMint |-> defaultQuoteMint],
      [baseMint |-> defaultQuoteMint, quoteMint |-> MintX],
      [baseMint |-> MintX, quoteMint |-> MintY] }

PoolRecordToks ==
    { <<LBrace, Str(K_baseMint), Str(r.baseMint), Str(K_quoteMint), Str(r.quoteMint), RBrace>>
      : r \in PoolRecords }

PoolDocuments == Documents(PoolRecordToks)

\* decoder.Decode(&pool) with pool a RaydiumPool.
DecodePool(doc, pos) ==
    IF doc[pos].t = "{"
    THEN LET b == ObjectField(doc, pos + 1, K_baseMint, [ok |-> TRUE, v |-> <<>>])
             q == ObjectField(doc, pos + 1, K_quoteMint, [ok |-> TRUE, v |-> <<>>])
         IN  [ok |-> b.ok /\ q.ok,
              rec |-> [baseMint |-> b.v, quoteMint |-> q.v],
              next |-> ValueEnd(doc, pos) + 1]
    ELSE [ok |-> FALSE,
          rec |-> [baseMint |-> <<>>, quoteMint |-> <<>>],
          next |-> ValueEnd(doc, pos) + 1]

\* processPool with the token/SOL test left out: holding the queried mint is enough.
processPool_containment(pool, isOfficial, baseMint, matching) ==
    IF pool.baseMint = baseMint \/ pool.quoteMint = baseMint
    THEN Append(matching, pool)
    ELSE matching

\* processPool putting a match in front of the earlier ones.
processPool_prepend(pool, isOfficial, baseMint, matching) ==
    IF \/ (pool.baseMint = baseMint /\ pool.quoteMint = defaultQuoteMint)
       \/ (pool.quoteMint = baseMint /\ pool.baseMint = defaultQuoteMint)
    THEN <<pool>> \o matching
    ELSE matching

\* lines 214-235: the closure processPool; the value is the new matchingPools.
processPool(pool, isOfficial, baseMint, matching) ==
    IF pool.baseMint = baseMint \/ pool.quoteMint = baseMint
    THEN IF \/ (pool.baseMint = baseMint /\ pool.quoteMint = defaultQuoteMint)
            \/ (pool.quoteMint = baseMint /\ pool.baseMint = defaultQuoteMint)
         THEN Append(matching, pool)
         ELSE matching
    ELSE matching

RECURSIVE PoolArray(_, _, _, _, _, _, _)
\* lines 261-285: the element loop of one array and the read of its end.
PoolArray(doc, pos, isOfficial, baseMint, match, src, seen) ==
    IF More(doc, pos)
    THEN LET d == DecodePool(doc, pos)
             m == processPool(d.rec, isOfficial, baseMint, match)
         IN  IF ~d.ok
             THEN [err |-> "Malformed", pos |-> d.next, match |-> match,
                   src |-> src, seen |-> seen]
             ELSE PoolArray(doc, d.next, isOfficial, baseMint, m,
                            IF Len(m) > Len(match)
                            THEN Append(src, [pos |-> pos, official |-> isOfficial])
                            ELSE src,
                            Append(seen, [pool |-> d.rec, official |-> isOfficial]))
    ELSE IF AtEOF(doc, pos) \/ doc[pos].t # "]"
         THEN [err |-> "Malformed", pos |-> pos + 1, match |-> match,
               src |-> src, seen |-> seen]
         ELSE [err |-> "none", pos |-> pos + 1, match |-> match,
               src |-> src, seen |-> seen]

\* lines 203-207: the opening token is read and not looked at.
PoolOpen ==
    /\ ppc = "open"
    /\ IF AtEOF(pdoc, ppos)
       THEN ppc' = "done" /\ perr' = "Malformed"
       ELSE ppc' = "loop" /\ UNCHANGED perr
    /\ ppos' = ppos + 1
    /\ UNCHANGED <<pdoc, pmint, matchingPools, psrc, pseen>>
    /\ UNCHANGED <<tvars, wvars>>

\* lines 238-292: one iteration of the field loop.
PoolField ==
    /\ ppc = "loop"
    /\ More(pdoc, ppos)
    /\ LET key == pdoc[ppos]
           p == ppos + 1
       IN  IF key.t = "str" /\ key.v = K_name
           THEN IF AtEOF(pdoc, p)
                THEN /\ ppos' = p
                     /\ ppc' = "done"
                     /\ perr' = "Malformed"
                     /\ UNCHANGED <<matchingPools, psrc, pseen>>
                ELSE /\ ppos' = p + 1
                     /\ UNCHANGED <<ppc, perr, matchingPools, psrc, pseen>>
           ELSE IF key.t = "str" /\ key.v \in {K_official, K_unOfficial}
           THEN IF AtEOF(pdoc, p) \/ pdoc[p].t # "["
                THEN /\ ppos' = p + 1
                     /\ ppc' = "done"
                     /\ perr' = "Malformed"
                     /\ UNCHANGED <<matchingPools, psrc, pseen>>
                ELSE LET r == PoolArray(pdoc, p + 1, key.v = K_official, pmint,
                                        matchingPools, psrc, pseen)
                     IN  /\ ppos' = r.pos
                         /\ matchingPools' = r.match
                         /\ psrc' = r.src
                         /\ pseen' = r.seen
                         /\ perr' = r.err
                         /\ ppc' = IF r.err = "none" THEN "loop" ELSE "done"
           ELSE \* no case for the key, or no string: nothing more is read
                /\ ppos' = p
                /\ UNCHANGED <<ppc, perr, matchingPools, psrc, pseen>>
    /\ UNCHANGED <<pdoc, pmint>>
    /\ UNCHANGED <<tvars, wvars>>

\* lines 294-298: the loop ends and matchingPools is returned.
PoolReturn ==
    /\ ppc = "loop"
    /\ ~More(pdoc, ppos)
    /\ ppc' = "done"
    /\ UNCHANGED <<pdoc, pmint, ppos, perr, matchingPools, psrc, pseen>>
    /\ UNCHANGED <<tvars, wvars>>

\* What processPoolsFile returns: nil with an error.
PoolResult == IF perr = "none" THEN matchingPools ELSE <<>>

PInit ==
    /\ pdoc \in PoolDocuments
    /\ pmint \in QueryMints
    /\ ppos = 1
    /\ ppc = "open"
    /\ perr = "none"
    /\ matchingPools = <<>>
    /\ psrc = <<>>
    /\ pseen = <<>>

\* processPoolsFile is not running.
POff ==
    /\ pdoc = <<>>
    /\ pmint = <<>>
    /\ ppos = 1
    /\ ppc = "off"
    /\ perr = "none"
    /\ matchingPools = <<>>
    /\ psrc = <<>>
    /\ pseen = <<>>


\* -------------------------------------------------------- writeFilteredPools

SymAAA == <<"A","A","A">>
Symaaa == <<"a","a","a">>
SymBBB == <<"B","B","B">>
\* A symbol holding the byte 0xFF, which is no valid UTF-8 (the --ticker
\* argument is any byte string), and the symbol U+FFFD.
SymBad == <<"\\xFF">>
SymRepl == <<"\\uFFFD">>

\* The tokenInfo and pools arguments.
WTokens ==
    { [symbol |-> SymAAA, mint |-> "m1"], [symbol |-> SymAAA, mint |-> "m2"],
      [symbol |-> Symaaa, mint |-> "m1"], [symbol |-> SymBBB, mint |-> "m1"],
      [symbol |-> SymBad, mint |-> "m1"] }
WPools == { <<"p1">>, <<"p2">> }

Entry(token, pools) == [token |-> token, pools |-> pools]
NoEntry == Entry([symbol |-> <<>>, mint |-> ""], <<>>)

\* The content of the output file.  kind is
\*   "absent"   no file;
\*   "list"     {"tokens": [...]}, the TokenPoolInfoList shape;
\*   "legacy"   {"token": ..., "pools": ...}, one bare TokenPoolInfo;
\*   "mixed"    {"tokens": <no array>, "token": ..., "pools": ...};
\*   "garbage"  no JSON value;
\*   "empty"    zero bytes;
\*   "partial"  a proper prefix of an encoded list.
File(kind, tokens, entry) == [kind |-> kind, tokens |-> tokens, entry |-> entry]
Absent == File("absent", <<>>, NoEntry)

\* encoding/json writes and reads a string coerced to valid UTF-8: every
\* invalid byte becomes U+FFFD.
ToValidUTF8(s) == [i \in 1..Len(s) |-> IF s[i] = SymBad[1] THEN SymRepl[1] ELSE s[i]]

CodecEntry(e) ==
    Entry([symbol |-> ToValidUTF8(e.token.symbol), mint |-> e.token.mint], e.pools)

\* encoder.Encode(tokenList), lines 462-467
EncodeList(tokens) ==
    File("list", [i \in 1..Len(tokens) |-> CodecEntry(tokens[i])], NoEntry)

\* json.Unmarshal(existingFile, &tokenList), line 416: fields the struct
\* does not have are ignored, so an object without "tokens" is no error.
UnmarshalList(f) ==
    CASE f.kind = "list" ->
           [ok |-> TRUE, tokens |-> [i \in 1..Len(f.tokens) |-> CodecEntry(f.tokens[i])]]
      [] f.kind = "legacy" -> [ok |-> TRUE, tokens |-> <<>>]
      [] OTHER -> [ok |-> FALSE, tokens |-> <<>>]

\* json.Unmarshal(existingFile, &oldFormat), line 419
UnmarshalEntry(f) ==
    CASE f.kind \in {"legacy", "mixed"} -> [ok |-> TRUE, entry |-> CodecEntry(f.entry)]
      [] f.kind = "list" -> [ok |-> TRUE, entry |-> NoEntry]
      [] OTHER -> [ok |-> FALSE, entry |-> NoEntry]

\* lines 409-424: tokenList.Tokens after reading the existing file.
LoadTokens(f) ==
    LET l == UnmarshalList(f)
        o == UnmarshalEntry(f)
    IN  IF l.ok THEN l
        ELSE IF o.ok THEN [ok |-> TRUE, tokens |-> <<o.entry>>]
        ELSE [ok |-> FALSE, tokens |-> <<>>]

RECURSIVE UpsertFrom(_, _, _)
\* lines 427-446: the scan from index i, replacing at the first entry of the
\* same symbol, appending when the scan ends.
UpsertFrom(list, i, entry) ==
    IF i > Len(list) THEN Append(list, entry)
    ELSE IF list[i].token.symbol = entry.token.symbol
         THEN [list EXCEPT ![i] = entry]
         ELSE UpsertFrom(list, i + 1, entry)

\* The upsert without the scan: the entry is always appended.
Upsert_append(list, entry) == Append(list, entry)

\* lines 426-446
Upsert(list, entry) == UpsertFrom(list, 1, entry)

\* What os.Create and the encoder's write do to the file, lines 456-467:
\* os.Create fails and the file is as it was; os.Create truncates it and the
\* write fails with nothing or a part written; or all is written.
IOOutcomes == { "ok", "create_fails", "write_fails_empty", "write_fails_partial" }

AfterWrite(f, tokens, io) ==
    CASE io = "ok" -> EncodeList(tokens)
      [] io = "create_fails" -> f
      [] io = "write_fails_empty" -> File("empty", <<>>, NoEntry)
      [] OTHER -> File("partial", <<>>, NoEntry)

NoLast == [token |-> NoEntry.token, pools |-> <<>>]

\* lines 406-472: one call writeFilteredPools(tokenInfo, pools).
writeFilteredPools(token, pools, io) ==
    /\ wruns < MaxRuns
    /\ wruns' = wruns + 1
    /\ wtoken' = token
    /\ wpools' = pools
    /\ wprior' = disk
    /\ wlast' = [token |-> wtoken, pools |-> wpools]
    /\ LET l == IF disk.kind = "absent" THEN [ok |-> TRUE, tokens |-> <<>>]
                ELSE LoadTokens(disk)
           merged == Upsert(l.tokens, Entry(token, pools))
       IN  IF ~l.ok
           THEN /\ wres' = "Malformed"
                /\ UNCHANGED <<disk, tokenList, wloaded>>
                /\ wclean' = FALSE
           ELSE /\ wloaded' = l.tokens
                /\ tokenList' = merged
                /\ disk' = AfterWrite(disk, merged, io)
                /\ wres' = IF io = "ok" THEN "ok" ELSE "IOError"
                /\ wclean' = (wclean /\ io = "ok")
    /\ UNCHANGED <<tvars, pvars>>

E_A1 == Entry([symbol |-> SymAAA, mint |-> "m1"], <<"p1">>)
E_A2 == Entry([symbol |-> SymAAA, mint |-> "m2"], <<"p2">>)
E_B1 == Entry([symbol |-> SymBBB, mint |-> "m1"], <<"p1">>)

\* The output file before the first call: none, an aggregate, an aggregate
\* edited to hold a symbol twice, a file of the legacy shape, a legacy file
\* with a "tokens" field that is no array, and a file that is no JSON.
InitialFiles ==
    { Absent,
      File("list", <<E_A1, E_B1>>, NoEntry),
      File("list", <<E_A1, E_B1, E_A2>>, NoEntry),
      File("legacy", <<>>, E_A1),
      File("mixed", <<>>, E_B1),
      File("garbage", <<>>, NoEntry) }

WInit ==
    /\ disk \in InitialFiles
    /\ wres = "none"
    /\ wtoken = NoEntry.token
    /\ wpools = <<>>
    /\ tokenList = <<>>
    /\ wloaded = <<>>
    /\ wprior = disk
    /\ wruns = 0
    /\ wclean = (disk = Absent)
    /\ wlast = NoLast

\* writeFilteredPools is never called.
WOff ==
    /\ disk = Absent
    /\ wres = "none"
    /\ wtoken = NoEntry.token
    /\ wpools = <<>>
    /\ tokenList = <<>>
    /\ wloaded = <<>>
    /\ wprior = disk
    /\ wruns = MaxRuns
    /\ wclean = FALSE
    /\ wlast = NoLast

\* ------------------------------------------------------------ specifications

InitTokens == TInit /\ POff /\ WOff
InitPools == TOff /\ PInit /\ WOff
InitMerge == TOff /\ POff /\ WInit

TNext == TokOpen \/ TokField \/ TokClose
PNext == PoolOpen \/ PoolField \/ PoolReturn
WNext == \E token \in WTokens, pools \in WPools, io \in IOOutcomes :
             writeFilteredPools(token, pools, io)

\* getTokenAddress on every generated token document and query symbol.
SpecTokens == InitTokens /\ [][TNext]_vars
\* processPoolsFile on every generated pool document and queried mint.
SpecPools == InitPools /\ [][PNext]_vars
\* Up to MaxRuns calls of writeFilteredPools on one output file.
SpecMerge == InitMerge /\ [][WNext]_vars


\* -------------------------------------------------- reference definitions

RECURSIVE TopKeysFrom(_, _)
\* The positions of the keys of the object whose first key is at `pos`.
TopKeysFrom(doc, pos) ==
    IF pos > Len(doc) \/ doc[pos].t = "}" THEN {}
    ELSE {pos} \cup TopKeysFrom(doc, ValueEnd(doc, pos + 1) + 1)

\* The positions of the top-level field names of a document.
TopKeys(doc) == IF doc[1].t = "{" THEN TopKeysFrom(doc, 2) ELSE {}

RECURSIVE ElementsFrom(_, _)
\* The positions of the elements of the array whose first element is at `pos`.
ElementsFrom(doc, pos) ==
    IF pos > Len(doc) \/ doc[pos].t = "]" THEN <<>>
    ELSE <<pos>> \o ElementsFrom(doc, ValueEnd(doc, pos) + 1)

IsSection(doc, p) == doc[p].v \in {K_official, K_unOfficial}

\* The top-level field at p is an official/unOfficial array of objects.
IsRecordArray(doc, p) ==
    /\ IsSection(doc, p)
    /\ doc[p + 1].t = "["
    /\ \A i \in 1..Len(ElementsFrom(doc, p + 2)) : doc[ElementsFrom(doc, p + 2)[i]].t = "{"

RECURSIVE SectionElementsFrom(_, _)
\* The positions of the elements of the top-level official/unOfficial
\* arrays, from the field at `pos` on, in document order.
SectionElementsFrom(doc, pos) ==
    IF pos > Len(doc) \/ doc[pos].t = "}" THEN <<>>
    ELSE (IF IsSection(doc, pos) /\ doc[pos + 1].t = "["
          THEN ElementsFrom(doc, pos + 2) ELSE <<>>)
         \o SectionElementsFrom(doc, ValueEnd(doc, pos + 1) + 1)

SectionElements(doc) == IF doc[1].t = "{" THEN SectionElementsFrom(doc, 2) ELSE <<>>

\* The token records of the top-level official and unOfficial arrays.
SectionTokens(doc) ==
    [i \in 1..Len(SectionElements(doc)) |-> DecodeTokenInfo(doc, SectionElements(doc)[i]).rec]

\* The pool records of the top-level official and unOfficial arrays.
SectionPools(doc) ==
    [i \in 1..Len(SectionElements(doc)) |-> DecodePool(doc, SectionElements(doc)[i]).rec]

\* Every top-level official/unOfficial field is an array of objects.
SectionsWellFormed(doc) ==
    /\ doc[1].t = "{"
    /\ \A p \in TopKeys(doc) : IsSection(doc, p) => IsRecordArray(doc, p)

\* A token document of official/unOfficial arrays of records and nothing else.
PlainTokenDoc(doc) ==
    /\ doc[1].t = "{"
    /\ \A p \in TopKeys(doc) : IsRecordArray(doc, p)

\* A pool document of a name and official/unOfficial arrays of records.
PlainPoolDoc(doc) ==
    /\ doc[1].t = "{"
    /\ \A p \in TopKeys(doc) :
         \/ IsRecordArray(doc, p)
         \/ doc[p].v = K_name /\ doc[p + 1].t \in {"str", "num"}

\* The pairing rule: the queried mint on one side and the SOL mint on the other.
Qualifies(pool, mint) ==
    \/ (pool.baseMint = mint /\ pool.quoteMint = defaultQuoteMint)
    \/ (pool.quoteMint = mint /\ pool.baseMint = defaultQuoteMint)


\* ------------------------------------------------------------------ claims

NewEntry == Entry(wtoken, wpools)

\* The new token's symbol is valid UTF-8, so the codec leaves it as it is.
PlainSymbol == ToValidUTF8(wtoken.symbol) = wtoken.symbol

\* C1: after a call of writeFilteredPools, whatever failed, the output file
\* is either the complete new aggregate or the file as it was before the call.
C1_RewriteAllOrNothing ==
    (wres # "none" /\ PlainSymbol) =>
        \/ disk = wprior
        \/ wres = "ok" /\ disk = EncodeList(tokenList)

\* The positions of the loaded entries that have the new token's symbol.
SameSymbol == { i \in 1..Len(wloaded) : wloaded[i].token.symbol = wtoken.symbol }

\* C2: the merge is an upsert by exact symbol: with no entry of the symbol
\* the new entry is appended; otherwise the first entry of the symbol is
\* replaced by the new entry in place; every other entry stays as and where
\* it was, and the count grows by 1 or by 0.
C2_UpsertBySymbol ==
    wres \in {"ok", "IOError"} =>
        IF SameSymbol = {}
        THEN tokenList = Append(wloaded, NewEntry)
        ELSE LET i == CHOOSE k \in SameSymbol : \A m \in SameSymbol : k <= m
             IN  /\ Len(tokenList) = Len(wloaded)
                 /\ tokenList[i] = NewEntry
                 /\ \A j \in 1..Len(wloaded) : j # i => tokenList[j] = wloaded[j]

\* C2 witness: the aggregate [AAA, BBB] gets new pools for AAA; BBB is as it was.
C2_Witness ==
    /\ wres = "ok"
    /\ wloaded = <<E_A1, E_B1>>
    /\ wtoken.symbol = SymAAA
    /\ wpools # E_A1.pools
    /\ tokenList = <<NewEntry, E_B1>>
    /\ disk = File("list", <<NewEntry, E_B1>>, NoEntry)

\* C3: from an absent file and successful merges only, the file holds at
\* most one entry per symbol, and the same pair merged twice leaves one
\* entry and the file of the first merge.
C3_OneEntryPerSymbol ==
    wclean =>
        /\ \/ disk = Absent
           \/ /\ disk.kind = "list"
              /\ \A i, j \in 1..Len(disk.tokens) :
                    i # j => disk.tokens[i].token.symbol # disk.tokens[j].token.symbol
        /\ (wruns = 2 /\ wlast = [token |-> wtoken, pools |-> wpools]) =>
              (Len(disk.tokens) = 1 /\ disk = wprior)

\* C4: a prior file of the legacy shape is promoted to a one-entry aggregate
\* before the upsert, so the written aggregate holds the legacy entry, or the
\* new entry in its place when the symbols are equal.
C4_LegacyEntryKept ==
    (wres = "ok" /\ wprior.kind = "legacy" /\ PlainSymbol) =>
        disk.tokens = IF wprior.entry.token.symbol = wtoken.symbol
                      THEN <<CodecEntry(NewEntry)>>
                      ELSE <<wprior.entry, CodecEntry(NewEntry)>>

SeenPools == [i \in 1..Len(pseen) |-> pseen[i].pool]

\* C5: a pool is put in the result iff it pairs the queried mint with the SOL
\* mint, in either order; holding the queried mint is not enough and the
\* section has no part in it.  Stated of every pool handed to processPool,
\* and of the whole result for a plain document.
C5_PairedWithReference ==
    /\ matchingPools = SelectSeq(SeenPools, LAMBDA r : Qualifies(r, pmint))
    /\ (ppc = "done" /\ PlainPoolDoc(pdoc)) =>
          /\ perr = "none"
          /\ PoolResult = SelectSeq(SectionPools(pdoc), LAMBDA r : Qualifies(r, pmint))

PoolA == [baseMint |-> MintX, quoteMint |-> defaultQuoteMint]
PoolB == [baseMint |-> MintX, quoteMint |-> MintY]
PoolC == [baseMint |-> defaultQuoteMint, quoteMint |-> MintX]

\* C5 witness: both pairings are in the result, and a pool that holds the
\* queried mint against another mint was seen and is not.
C5_Witness ==
    /\ ppc = "done"
    /\ pmint = MintX
    /\ PoolResult = <<PoolA, PoolC>>
    /\ \E i \in 1..Len(pseen) : pseen[i].pool = PoolB

\* C6: the result is exactly the records of both arrays whose normalized
\* symbol equals the normalized query symbol (stated for plain documents).
C6_MatchByNormalizedSymbol ==
    (tpc = "done" /\ PlainTokenDoc(tdoc)) =>
        /\ terr # "Malformed"
        /\ matchingTokens = SelectSeq(SectionTokens(tdoc),
                              LAMBDA r : NormalizeSymbol(r.symbol) = NormalizeSymbol(tquery))

\* C7: NotFound is reported only after the whole document was traversed:
\* every element of the official and unOfficial arrays was consumed and none
\* of them matches.
C7_NotFoundAfterFullTraversal ==
    terr = "NotFound" =>
        /\ tokenCount = Len(SectionElements(tdoc))
        /\ \A i \in 1..Len(SectionTokens(tdoc)) : ~SymbolMatches(SectionTokens(tdoc)[i], tsym)

\* C9: a document without an `official` field, or with an `official` value
\* that is no array, ends in Malformed.
C9_MissingOfficialIsMalformed ==
    (/\ tpc = "done"
     /\ \/ ~ \E p \in TopKeys(tdoc) : tdoc[p].v = K_official
        \/ \E p \in TopKeys(tdoc) : tdoc[p].v = K_official /\ tdoc[p + 1].t # "[")
    => terr = "Malformed"

\* C10: a top-level field of another name is skipped as one whole value: the
\* walk reads field names at top-level keys only, and the outcome is that of
\* the top-level official/unOfficial arrays alone.
C10_UnknownFieldSkippedWhole ==
    /\ tpc = "loop" => tpos \in TopKeys(tdoc) \cup {Len(tdoc)}
    /\ (tpc = "done" /\ SectionsWellFormed(tdoc)) =>
          /\ terr # "Malformed"
          /\ matchingTokens = SelectSeq(SectionTokens(tdoc), LAMBDA r : SymbolMatches(r, tsym))

\* C8 as stated: every official pool of the result is before every
\* unOfficial pool of the result, whatever the order of the fields.
C8_OfficialBeforeUnofficial ==
    (ppc = "done" /\ perr = "none" /\ PlainPoolDoc(pdoc)) =>
        \A i, j \in 1..Len(psrc) : i < j => ~(~psrc[i].official /\ psrc[j].official)

\* Every `official` key of the document is before every `unOfficial` key.
OfficialFirst(doc) ==
    \A i, j \in 1..Len(doc) :
        (doc[i] = Str(K_official) /\ doc[j] = Str(K_unOfficial)) => i < j

\* C8 amended: the result lists the matching pools in the order in which
\* they are met in the document; official pools come before unOfficial
\* pools when the official keys come before the unOfficial keys.
C8_EncounterOrder ==
    /\ Len(psrc) = Len(matchingPools)
    /\ \A i \in 1..Len(psrc) : matchingPools[i] = DecodePool(pdoc, psrc[i].pos).rec
    /\ \A i, j \in 1..Len(psrc) : i < j => psrc[i].pos < psrc[j].pos
    /\ \/ \A i, j \in 1..Len(psrc) : i < j => ~(~psrc[i].official /\ psrc[j].official)
       \/ ~OfficialFirst(pdoc)

PoolToks(r) ==
    <<LBrace, Str(K_baseMint), Str(r.baseMint), Str(K_quoteMint), Str(r.quoteMint), RBrace>>

\* C8 witness: official [A, B] and unOfficial [C] with A and C matching
\* yields [A, C].
C8_Witness ==
    /\ ppc = "done"
    /\ pmint = MintX
    /\ pdoc = <<LBrace, Str(K_official), LBrack>> \o PoolToks(PoolA) \o PoolToks(PoolB)
              \o <<RBrack, Str(K_unOfficial), LBrack>> \o PoolToks(PoolC)
              \o <<RBrack, RBrace>>
    /\ PoolResult = <<PoolA, PoolC>>

====
